---- MODULE Spec2Model ----
(***************************************************************************)
(* State-machine model of the Euribor Prometheus exporter.                 *)
(*                                                                         *)
(*   scraper package : parseRate, parseDate, extractData  (value parser    *)
(*                     and web extractor)                                  *)
(*   main package    : FetchRateFromECB, updateDailyMetrics,               *)
(*                     updateECBMetrics, UpdateMetrics, Run, main           *)
(*                                                                         *)
(* Text is modelled as a sequence of one-character strings, so that the    *)
(* parsers work on characters the way the Go code does.                    *)
(***************************************************************************)
EXTENDS Integers, Sequences, FiniteSets, TLC

----------------------------------------------------------------------------
(* Characters and strings                                                  *)

Digits == {"0", "1", "2", "3", "4", "5", "6", "7", "8", "9"}

DigitVal(c) ==
    CASE c = "0" -> 0 [] c = "1" -> 1 [] c = "2" -> 2 [] c = "3" -> 3
      [] c = "4" -> 4 [] c = "5" -> 5 [] c = "6" -> 6 [] c = "7" -> 7
      [] c = "8" -> 8 [] c = "9" -> 9

\* unicode.IsSpace for the characters the inputs use
WhiteSpace == {" ", "\t", "\n"}

isDigit(s, i) == i <= Len(s) /\ s[i] \in Digits

Drop(s, n) == IF n >= Len(s) THEN << >> ELSE SubSeq(s, n + 1, Len(s))

Take(s, n) == IF n >= Len(s) THEN s ELSE SubSeq(s, 1, n)

RECURSIVE TrimLeft(_)
TrimLeft(s) ==
    IF s # << >> /\ Head(s) \in WhiteSpace THEN TrimLeft(Tail(s)) ELSE s

RECURSIVE TrimRight(_)
TrimRight(s) ==
    IF s # << >> /\ s[Len(s)] \in WhiteSpace
    THEN TrimRight(SubSeq(s, 1, Len(s) - 1))
    ELSE s

\* strings.TrimSpace
TrimSpace(s) == TrimRight(TrimLeft(s))

\* strings.Replace(s, old, "", -1) for a one-character old
RemoveAll(s, c) == SelectSeq(s, LAMBDA x : x # c)

\* strings.Replace(s, old, new, -1) for one-character old and new
ReplaceAll(s, old, new) == [i \in 1..Len(s) |-> IF s[i] = old THEN new ELSE s[i]]

----------------------------------------------------------------------------
(* Rates.  A float64 result is modelled by the exact decimal it denotes:   *)
(* num / 10^scale, normalised so that equal values have equal records.     *)

RECURSIVE Normalise(_, _)
Normalise(num, scale) ==
    IF num = 0 THEN [num |-> 0, scale |-> 0]
    ELSE IF scale > 0 /\ num % 10 = 0 THEN Normalise(num \div 10, scale - 1)
    ELSE [num |-> num, scale |-> scale]

Decimal(num, scale) == Normalise(num, scale)

Failure == [ok |-> FALSE]

\* strconv's readFloat mantissa loop: digits and at most one '.', stopping at
\* the first other character.  acc = <<position, mantissa, sawdot, sawdigits,
\* fraction digits>>
RECURSIVE readMantissa(_, _, _, _, _, _)
readMantissa(s, i, mant, sawdot, sawdigits, nd) ==
    IF i > Len(s) THEN <<i, mant, sawdigits, nd>>
    ELSE IF s[i] = "." THEN
        IF sawdot THEN <<i, mant, sawdigits, nd>>
        ELSE readMantissa(s, i + 1, mant, TRUE, sawdigits, nd)
    ELSE IF s[i] \in Digits THEN
        readMantissa(s, i + 1, mant * 10 + DigitVal(s[i]), sawdot, TRUE,
                     IF sawdot THEN nd + 1 ELSE nd)
    ELSE <<i, mant, sawdigits, nd>>

\* strconv.ParseFloat(s, 64) on the characters parseRate can hand it
\* (digits, '.', '-'): optional sign, mantissa, and the whole string consumed
ParseFloat(s) ==
    IF s = << >> THEN Failure
    ELSE LET neg   == s[1] = "-"
             start == IF s[1] \in {"-", "+"} THEN 2 ELSE 1
             r     == readMantissa(s, start, 0, FALSE, FALSE, 0)
         IN  IF ~r[3] \/ r[1] # Len(s) + 1 THEN Failure
             ELSE [ok |-> TRUE,
                   val |-> Decimal(IF neg THEN 0 - r[2] ELSE r[2], r[4])]

IsNumericRune(r) == r \in Digits \/ r = "." \/ r = "-"

\* parseRate with a bug: the decimal comma is dropped, not replaced
parseRate_NoComma(s) ==
    LET s1 == TrimSpace(s)
        s2 == RemoveAll(s1, "%")
        s3 == TrimSpace(s2)
        cleanedStr == SelectSeq(s3, IsNumericRune)
    IN  IF cleanedStr = << >> THEN Failure ELSE ParseFloat(cleanedStr)

\* parseRate with a bug: a '-' behind the first kept character is dropped
parseRate_LeadingMinusOnly(s) ==
    LET s1   == TrimSpace(s)
        s2   == RemoveAll(s1, "%")
        s3   == TrimSpace(s2)
        s4   == ReplaceAll(s3, ",", ".")
        kept == SelectSeq(s4, IsNumericRune)
        cleanedStr == IF kept = << >> THEN kept
                      ELSE <<Head(kept)>>
                           \o SelectSeq(Tail(kept), LAMBDA c : c # "-")
    IN  IF cleanedStr = << >> THEN Failure ELSE ParseFloat(cleanedStr)

\* parseRate: "2.524 %", "2,524%", ... -> the numeric rate, or an error
parseRate(s) ==
    LET s1 == TrimSpace(s)
        s2 == RemoveAll(s1, "%")
        s3 == TrimSpace(s2)
        s4 == ReplaceAll(s3, ",", ".")
        cleanedStr == SelectSeq(s4, IsNumericRune)
    IN  IF cleanedStr = << >> THEN Failure ELSE ParseFloat(cleanedStr)

----------------------------------------------------------------------------
(* Dates.  time.Parse for the layout elements the format list uses.  A     *)
(* layout is the sequence of chunks Go's nextStdChunk cuts it into: a std   *)
(* element name or one literal character.                                  *)

Chars(str) ==
    CASE str = "Jan" -> <<"J", "a", "n">>
      [] str = "Feb" -> <<"F", "e", "b">>
      [] str = "Mar" -> <<"M", "a", "r">>
      [] str = "Apr" -> <<"A", "p", "r">>
      [] str = "May" -> <<"M", "a", "y">>
      [] str = "Jun" -> <<"J", "u", "n">>
      [] str = "Jul" -> <<"J", "u", "l">>
      [] str = "Aug" -> <<"A", "u", "g">>
      [] str = "Sep" -> <<"S", "e", "p">>
      [] str = "Oct" -> <<"O", "c", "t">>
      [] str = "Nov" -> <<"N", "o", "v">>
      [] str = "Dec" -> <<"D", "e", "c">>
      [] str = "January" -> <<"J", "a", "n", "u", "a", "r", "y">>
      [] str = "February" -> <<"F", "e", "b", "r", "u", "a", "r", "y">>
      [] str = "March" -> <<"M", "a", "r", "c", "h">>
      [] str = "April" -> <<"A", "p", "r", "i", "l">>
      [] str = "June" -> <<"J", "u", "n", "e">>
      [] str = "July" -> <<"J", "u", "l", "y">>
      [] str = "August" -> <<"A", "u", "g", "u", "s", "t">>
      [] str = "September" -> <<"S", "e", "p", "t", "e", "m", "b", "e", "r">>
      [] str = "October" -> <<"O", "c", "t", "o", "b", "e", "r">>
      [] str = "November" -> <<"N", "o", "v", "e", "m", "b", "e", "r">>
      [] str = "December" -> <<"D", "e", "c", "e", "m", "b", "e", "r">>

shortMonthNames ==
    <<"Jan", "Feb", "Mar", "Apr", "May", "Jun",
      "Jul", "Aug", "Sep", "Oct", "Nov", "Dec">>

longMonthNames ==
    <<"January", "February", "March", "April", "May", "June",
      "July", "August", "September", "October", "November", "December">>

\* ASCII case folding of time.match
lower(c) ==
    CASE c = "A" -> "a" [] c = "B" -> "b" [] c = "C" -> "c" [] c = "D" -> "d"
      [] c = "E" -> "e" [] c = "F" -> "f" [] c = "G" -> "g" [] c = "H" -> "h"
      [] c = "I" -> "i" [] c = "J" -> "j" [] c = "K" -> "k" [] c = "L" -> "l"
      [] c = "M" -> "m" [] c = "N" -> "n" [] c = "O" -> "o" [] c = "P" -> "p"
      [] c = "Q" -> "q" [] c = "R" -> "r" [] c = "S" -> "s" [] c = "T" -> "t"
      [] c = "U" -> "u" [] c = "V" -> "v" [] c = "W" -> "w" [] c = "X" -> "x"
      [] c = "Y" -> "y" [] c = "Z" -> "z"
      [] OTHER -> c

match(s1, s2) ==
    /\ Len(s1) = Len(s2)
    /\ \A i \in 1..Len(s1) : lower(s1[i]) = lower(s2[i])

\* time.lookup: index of the first name that is a prefix of val (0: none)
lookup(tab, val) ==
    LET hits == {i \in 1..Len(tab) :
                    /\ Len(val) >= Len(Chars(tab[i]))
                    /\ match(Take(val, Len(Chars(tab[i]))), Chars(tab[i]))}
    IN  IF hits = {} THEN 0 ELSE CHOOSE i \in hits : \A j \in hits : i <= j

isLeap(year) == year % 4 = 0 /\ (year % 100 # 0 \/ year % 400 = 0)

daysIn(month, year) ==
    IF month = 2 THEN (IF isLeap(year) THEN 29 ELSE 28)
    ELSE IF month \in {4, 6, 9, 11} THEN 30 ELSE 31

\* time.getnum: one or two digits (exactly two when fixed)
getnum(s, fixed) ==
    IF ~isDigit(s, 1) THEN Failure
    ELSE IF ~isDigit(s, 2) THEN
        IF fixed THEN Failure
        ELSE [ok |-> TRUE, n |-> DigitVal(s[1]), rest |-> Drop(s, 1)]
    ELSE [ok |-> TRUE, n |-> DigitVal(s[1]) * 10 + DigitVal(s[2]),
          rest |-> Drop(s, 2)]

RECURSIVE cutspace(_)
cutspace(s) == IF s # << >> /\ Head(s) = " " THEN cutspace(Tail(s)) ELSE s

\* time.skip for a one-character literal prefix
skip(value, c) ==
    IF c = " " THEN
        IF value # << >> /\ Head(value) # " " THEN Failure
        ELSE [ok |-> TRUE, rest |-> cutspace(value)]
    ELSE IF value = << >> \/ Head(value) # c THEN Failure
    ELSE [ok |-> TRUE, rest |-> Tail(value)]

\* One chunk of time.Parse's loop, on the parse state
\* st = [value, year, month, day]
parseChunk(chunk, st) ==
    LET value == st.value IN
    CASE chunk = "stdLongYear" ->
            IF Len(value) < 4 \/ \E i \in 1..4 : value[i] \notin Digits
            THEN Failure
            ELSE [ok |-> TRUE,
                  st |-> [st EXCEPT !.value = Drop(value, 4),
                                    !.year = DigitVal(value[1]) * 1000
                                             + DigitVal(value[2]) * 100
                                             + DigitVal(value[3]) * 10
                                             + DigitVal(value[4])]]
      [] chunk \in {"stdZeroMonth", "stdNumMonth"} ->
            LET r == getnum(value, chunk = "stdZeroMonth") IN
            IF ~r.ok \/ r.n <= 0 \/ 12 < r.n THEN Failure
            ELSE [ok |-> TRUE, st |-> [st EXCEPT !.value = r.rest, !.month = r.n]]
      [] chunk \in {"stdZeroDay", "stdDay"} ->
            LET r == getnum(value, chunk = "stdZeroDay") IN
            IF ~r.ok THEN Failure
            ELSE [ok |-> TRUE, st |-> [st EXCEPT !.value = r.rest, !.day = r.n]]
      [] chunk \in {"stdMonth", "stdLongMonth"} ->
            LET tab == IF chunk = "stdMonth" THEN shortMonthNames
                       ELSE longMonthNames
                k   == lookup(tab, value)
            IN  IF k = 0 THEN Failure
                ELSE [ok |-> TRUE,
                      st |-> [st EXCEPT !.value = Drop(value, Len(Chars(tab[k]))),
                                        !.month = k]]
      [] OTHER ->
            LET r == skip(value, chunk) IN
            IF ~r.ok THEN Failure
            ELSE [ok |-> TRUE, st |-> [st EXCEPT !.value = r.rest]]

RECURSIVE parseChunks(_, _, _)
parseChunks(layout, i, st) ==
    IF i > Len(layout) THEN
        \* no std element left: the value must be used up ("extra text")
        IF st.value # << >> THEN Failure
        ELSE LET month == IF st.month < 0 THEN 1 ELSE st.month
                 day   == IF st.day < 0 THEN 1 ELSE st.day
             IN  IF day < 1 \/ day > daysIn(month, st.year) THEN Failure
                 ELSE [ok |-> TRUE,
                       date |-> [year |-> st.year, month |-> month, day |-> day]]
    ELSE LET r == parseChunk(layout[i], st) IN
         IF ~r.ok THEN Failure ELSE parseChunks(layout, i + 1, r.st)

\* time.Parse(layout, value)
timeParse(layout, value) ==
    parseChunks(layout, 1, [value |-> value, year |-> 0, month |-> -1, day |-> -1])

\* the format list with a bug: the EU slash layout comes before the US one
formats_EUFirst ==
    << <<"stdZeroDay", "/", "stdZeroMonth", "/", "stdLongYear">>,
       <<"stdZeroMonth", "/", "stdZeroDay", "/", "stdLongYear">>,
       <<"stdLongYear", "-", "stdZeroMonth", "-", "stdZeroDay">>,
       <<"stdZeroMonth", "-", "stdZeroDay", "-", "stdLongYear">>,
       <<"stdZeroDay", "-", "stdZeroMonth", "-", "stdLongYear">>,
       <<"stdDay", ".", "stdNumMonth", ".", "stdLongYear">>,
       <<"stdZeroDay", ".", "stdZeroMonth", ".", "stdLongYear">>,
       <<"stdMonth", " ", "stdDay", ",", " ", "stdLongYear">>,
       <<"stdDay", " ", "stdMonth", " ", "stdLongYear">>,
       <<"stdLongMonth", " ", "stdDay", ",", " ", "stdLongYear">>,
       <<"stdDay", " ", "stdLongMonth", " ", "stdLongYear">> >>

\* the format list of parseDate, in its order
formats ==
    << <<"stdZeroMonth", "/", "stdZeroDay", "/", "stdLongYear">>,    \* 01/02/2006
       <<"stdZeroDay", "/", "stdZeroMonth", "/", "stdLongYear">>,    \* 02/01/2006
       <<"stdLongYear", "-", "stdZeroMonth", "-", "stdZeroDay">>,    \* 2006-01-02
       <<"stdZeroDay", "-", "stdZeroMonth", "-", "stdLongYear">>,    \* 02-01-2006
       <<"stdZeroMonth", "-", "stdZeroDay", "-", "stdLongYear">>,    \* 01-02-2006
       <<"stdDay", ".", "stdNumMonth", ".", "stdLongYear">>,         \* 2.1.2006
       <<"stdZeroDay", ".", "stdZeroMonth", ".", "stdLongYear">>,    \* 02.01.2006
       <<"stdMonth", " ", "stdDay", ",", " ", "stdLongYear">>,       \* Jan 2, 2006
       <<"stdDay", " ", "stdMonth", " ", "stdLongYear">>,            \* 2 Jan 2006
       <<"stdLongMonth", " ", "stdDay", ",", " ", "stdLongYear">>,   \* January 2, 2006
       <<"stdDay", " ", "stdLongMonth", " ", "stdLongYear">> >>      \* 2 January 2006

\* the loop of parseDate: the first format that parses wins
RECURSIVE tryFormats(_, _)
tryFormats(s, i) ==
    IF i > Len(formats) THEN Failure
    ELSE LET r == timeParse(formats[i], s) IN
         IF r.ok THEN r ELSE tryFormats(s, i + 1)

parseDate(s) == tryFormats(TrimSpace(s), 1)

----------------------------------------------------------------------------
(* Instants.  A time.Time is modelled by its Unix time in seconds.         *)

leapsThrough(n) == (n \div 4) - (n \div 100) + (n \div 400)

\* days from 1970-01-01 to the first day of the year
daysBeforeYear(year) ==
    365 * (year - 1970) + leapsThrough(year - 1) - leapsThrough(1969)

RECURSIVE daysBeforeMonth(_, _)
daysBeforeMonth(month, year) ==
    IF month <= 1 THEN 0
    ELSE daysBeforeMonth(month - 1, year) + daysIn(month - 1, year)

\* time.Date(year, month, day, 0, 0, 0, 0, time.UTC).Unix(): month and day
\* may lie outside their range and are normalised (month 13 is January of
\* the next year, day 0 is the last day of the month before)
timeDate(year, month, day) ==
    LET y == year + ((month - 1) \div 12)
        m == ((month - 1) % 12) + 1
    IN  (daysBeforeYear(y) + daysBeforeMonth(m, y) + (day - 1)) * 86400

\* Unix() of a date that time.Parse returned
Unix(date) == timeDate(date.year, date.month, date.day)

----------------------------------------------------------------------------
(* Web extractor.  A document is the sequence of its tables in document    *)
(* order; a table has the marker class or not; a row lies in a tbody or    *)
(* not and carries the texts of its td cells.                              *)

\* rows of the document in document order, with their table's class
RECURSIVE docRows(_)
docRows(doc) ==
    IF doc = << >> THEN << >>
    ELSE [i \in 1..Len(Head(doc).rows) |->
             [marker |-> Head(doc).marker,
              body   |-> Head(doc).rows[i].body,
              cells  |-> Head(doc).rows[i].cells]]
         \o docRows(Tail(doc))

\* doc.Find(selector).First().Each(...): the first row the selector matches,
\* taken when it has at least two cells
firstRow(rows) ==
    IF rows # << >> /\ Len(Head(rows).cells) >= 2
    THEN [found |-> TRUE,
          dateStr |-> TrimSpace(Head(rows).cells[1]),
          rateStr |-> TrimSpace(Head(rows).cells[2])]
    ELSE [found |-> FALSE]

\* extractData with a bug: a date cell that does not parse fails the call
extractData_DateFatal(doc, timeNow) ==
    LET rows == docRows(doc)
        s1   == firstRow(SelectSeq(rows, LAMBDA r : r.marker /\ r.body))
        sel  == IF s1.found THEN s1 ELSE firstRow(rows)
    IN  IF ~sel.found THEN Failure
        ELSE LET rate    == parseRate(sel.rateStr)
                 pubDate == parseDate(sel.dateStr)
             IN  IF ~rate.ok \/ ~pubDate.ok THEN Failure
                 ELSE [ok |-> TRUE, Rate |-> rate.val,
                       PublicationDate |-> Unix(pubDate.date)]

\* Scraper.extractData; timeNow is what time.Now() returns
extractData(doc, timeNow) ==
    LET rows == docRows(doc)
        \* Strategy 1: table.table_historiek tbody tr
        s1   == firstRow(SelectSeq(rows, LAMBDA r : r.marker /\ r.body))
        \* Strategy 2: table tr
        sel  == IF s1.found THEN s1 ELSE firstRow(rows)
    IN  IF ~sel.found THEN Failure
        ELSE LET rate    == parseRate(sel.rateStr)
                 pubDate == parseDate(sel.dateStr)
             IN  IF ~rate.ok THEN Failure
                 ELSE [ok |-> TRUE, Rate |-> rate.val,
                       PublicationDate |->
                           IF pubDate.ok THEN Unix(pubDate.date) ELSE timeNow]

\* keys of maturityURLs
maturityURLs == {"1W", "1M", "3M", "6M", "12M"}

\* Scraper.FetchRate: resp is what the web site answers, either an error
\* (transport, HTTP status, unparsable HTML) or a document
FetchRate(maturity, resp, timeNow) ==
    IF maturity \notin maturityURLs THEN Failure
    ELSE IF resp.err # "none" THEN Failure
    ELSE extractData(resp.doc, timeNow)

\* EuriborExporter.FetchRateFromWeb
FetchRateFromWeb(maturity, resp, timeNow) == FetchRate(maturity, resp, timeNow)

----------------------------------------------------------------------------
(* Structured-API (ECB) adapter.  A response is a transport-level error or *)
(* the decoded ECBResponse:                                                *)
(*   DataSets    : sequence of [Series : key -> [Observations : key ->     *)
(*                 sequence of rates]]   (maps are functions)              *)
(*   Observation : Structure.Dimensions.Observation, a sequence of         *)
(*                 [Values : sequence of period labels]                    *)

\* the maturities map: maturity code -> ECB series code
maturities ==
    [m \in {"1M", "3M", "6M", "12M"} |->
        CASE m = "1M" -> "1MD_" [] m = "3M" -> "3MD_"
          [] m = "6M" -> "6MD_" [] m = "12M" -> "1YD_"]

seriesKey == "0:0:0:0:0:0:0"

\* byte value of the characters observation keys are written with
byteOf(c) == IF c \in Digits THEN 48 + DigitVal(c) ELSE IF c = "-" THEN 45 ELSE 58

\* Go's string comparison a > b
RECURSIVE strGreater(_, _)
strGreater(a, b) ==
    IF a = << >> THEN FALSE
    ELSE IF b = << >> THEN TRUE
    ELSE IF byteOf(Head(a)) # byteOf(Head(b)) THEN byteOf(Head(a)) > byteOf(Head(b))
    ELSE strGreater(Tail(a), Tail(b))

\* latestKeyLoop with a bug: the key visited last is taken
latestKeyLoop_LastVisited(order, latestKey) ==
    IF order = << >> THEN latestKey ELSE order[Len(order)]

\* the loop over series.Observations, visiting the keys in the given order
RECURSIVE latestKeyLoop(_, _)
latestKeyLoop(order, latestKey) ==
    IF order = << >> THEN latestKey
    ELSE latestKeyLoop(Tail(order),
                       IF latestKey = << >> \/ strGreater(Head(order), latestKey)
                       THEN Head(order) ELSE latestKey)

\* time.Parse("2006-01", dateStr)
monthLayout == <<"stdLongYear", "-", "stdZeroMonth">>

\* ecbPubDate with a bug: the first period label is read
ecbPubDate_FirstLabel(resp, timeNow) ==
    IF Len(resp.Observation) > 0 /\ Len(resp.Observation[1].Values) > 0
    THEN LET timeDim == resp.Observation[1]
             parsed  == timeParse(monthLayout, timeDim.Values[1])
         IN  IF ~parsed.ok THEN timeNow
             ELSE timeDate(parsed.date.year, parsed.date.month + 1, 0)
    ELSE timeNow

\* the publication date of FetchRateFromECB
ecbPubDate(resp, timeNow) ==
    IF Len(resp.Observation) > 0 /\ Len(resp.Observation[1].Values) > 0
    THEN LET timeDim   == resp.Observation[1]
             latestIdx == Len(timeDim.Values)
             parsed    == timeParse(monthLayout, timeDim.Values[latestIdx])
         IN  IF ~parsed.ok THEN timeNow
             ELSE timeDate(parsed.date.year, parsed.date.month + 1, 0)
    ELSE timeNow

\* the orders in which a range over the observation map may visit its keys
RECURSIVE Orders(_)
Orders(keys) ==
    IF keys = {} THEN {<< >>}
    ELSE UNION {{<<k>> \o o : o \in Orders(keys \ {k})} : k \in keys}

KeyOrders(resp) ==
    IF resp.err = "none" /\ Len(resp.DataSets) > 0
       /\ seriesKey \in DOMAIN resp.DataSets[1].Series
    THEN Orders(DOMAIN resp.DataSets[1].Series[seriesKey].Observations)
    ELSE {<< >>}

\* FetchRateFromECB with a bug: the maturity is not looked up
FetchRateFromECB_AnyMaturity(maturity, resp, order, timeNow) ==
    IF resp.err # "none" THEN Failure
    ELSE IF Len(resp.DataSets) = 0 THEN Failure
    ELSE IF seriesKey \notin DOMAIN resp.DataSets[1].Series THEN Failure
    ELSE LET series == resp.DataSets[1].Series[seriesKey] IN
         IF DOMAIN series.Observations = {} THEN Failure
         ELSE LET latestKey    == latestKeyLoop(order, << >>)
                  observations == series.Observations[latestKey]
              IN  IF Len(observations) = 0 THEN Failure
                  ELSE [ok |-> TRUE, Rate |-> observations[1],
                        PublicationDate |-> ecbPubDate(resp, timeNow)]

\* EuriborExporter.FetchRateFromECB; order is the map iteration order of
\* this call, timeNow is what time.Now() returns
FetchRateFromECB(maturity, resp, order, timeNow) ==
    IF maturity \notin DOMAIN maturities THEN Failure
    ELSE IF resp.err # "none" THEN Failure
    ELSE IF Len(resp.DataSets) = 0 THEN Failure
    ELSE IF seriesKey \notin DOMAIN resp.DataSets[1].Series THEN Failure
    ELSE LET series == resp.DataSets[1].Series[seriesKey] IN
         IF DOMAIN series.Observations = {} THEN Failure
         ELSE LET latestKey    == latestKeyLoop(order, << >>)
                  observations == series.Observations[latestKey]
              IN  IF Len(observations) = 0 THEN Failure
                  ELSE [ok |-> TRUE, Rate |-> observations[1],
                        PublicationDate |-> ecbPubDate(resp, timeNow)]

----------------------------------------------------------------------------
(* Bounds of the model                                                     *)

\* interval ticks the ticker delivers in a run
MaxTicks == 1

\* times an upstream source changes what it answers in a run
MaxUpstreamChanges == 1

----------------------------------------------------------------------------
(* Upstream answers                                                        *)

oneRowDoc(dateText, rateText) ==
    << [marker |-> TRUE,
        rows |-> << [body |-> TRUE, cells |-> <<dateText, rateText>>] >>] >>

\* latency is how long the answer takes, in units of the duration gauge
WebDown == [err |-> "transport", doc |-> << >>, latency |-> 3]

WebDocA == [err |-> "none", latency |-> 1, doc |-> oneRowDoc(<<"1", "2", "/", "1", "3", "/", "2", "0", "2", "5">>, <<"2", ".", "5", "2", "4", " ", "%">>)]

\* another rate, and a date cell no format parses
WebDocB == [err |-> "none", latency |-> 2, doc |-> oneRowDoc(<<"n", "/", "a">>, <<"2", ",", "6", "%">>)]

WebResponses == {WebDown, WebDocA, WebDocB}

ecbData(key, rate, dims, latency) ==
    [err |-> "none", latency |-> latency,
     DataSets |-> << [Series |-> [k \in {seriesKey} |->
                        [Observations |-> [o \in {key} |-> <<rate>>]]]] >>,
     Observation |-> dims]

EcbDown ==
    [err |-> "status", latency |-> 3, DataSets |-> << >>, Observation |-> << >>]

EcbRespA == ecbData(<<"0">>, Decimal(2071, 3), << [Values |-> << <<"2", "0", "2", "5", "-", "1", "1">> >>] >>, 1)

\* another rate, and no dimension metadata
EcbRespB == ecbData(<<"0">>, Decimal(2113, 3), << >>, 2)

ECBResponses == {EcbDown, EcbRespA, EcbRespB}

Sources == {"web", "ecb"}

\* the clock when the process starts
StartTime == timeDate(2025, 12, 15)

----------------------------------------------------------------------------
(* State                                                                   *)

VARIABLES
    \* the gauge vectors: label value -> cell
    euriborRate, euriborLastUpdate, euriborPubDate,
    euriborScrapeDuration, euriborScrapeSuccess,
    euriborDailyRate, euriborDailyPublicationDate,
    euriborDailyScrapeSuccess, euriborDailyScrapeDuration,
    \* the exporter and its Run goroutine
    ecbEnabled,     \* EuriborExporter.ecbEnabled
    runPc,          \* where Run is: idle, daily, ecb, wait, stopped
    todo,           \* maturities the running pass has not iterated yet
    cur,            \* the maturity of the running loop iteration
    tickPending,    \* a tick waits in ticker.C (a channel of capacity 1)
    ticks,          \* ticks the ticker has fired
    \* main
    stopCh,         \* open or closed
    mainPc,         \* serving, shutdown, exited
    \* the environment
    now,            \* the wall clock
    webSite,        \* what the web site answered last, per maturity
    ecbApi,         \* what the ECB API answered last, per maturity
    changes,        \* times a source answered other than before
    \* history of the fetches
    attempts,       \* fetches of each (maturity, source) in the running pass
    received,       \* the answer each pair's latest fetch received
    lastSuccess,    \* what each pair's latest successful fetch returned
    \* a parser under test
    input,          \* the text (or document) handed to a parser
    output          \* what the parser returned

ecbMetrics == <<euriborRate, euriborLastUpdate, euriborPubDate,
                euriborScrapeDuration, euriborScrapeSuccess>>

dailyMetrics == <<euriborDailyRate, euriborDailyPublicationDate,
                  euriborDailyScrapeSuccess, euriborDailyScrapeDuration>>

upstream == <<webSite, ecbApi, changes>>

parseVars == <<input, output>>

vars == <<ecbMetrics, dailyMetrics, ecbEnabled, runPc, todo, cur, tickPending,
          ticks, stopCh, mainPc, now, upstream, attempts, received,
          lastSuccess, parseVars>>

\* a gauge cell: no child for the label yet, or the value last Set
Absent == [set |-> FALSE]

Val(v) == [set |-> TRUE, v |-> v]

NoMaturity == "-"

NeverFetched == [err |-> "never"]

NoInput == [kind |-> "none"]

NotRun == [run |-> FALSE]

Pairs == maturityURLs \X Sources

\* the process lives until main returns
alive == mainPc # "exited"

\* the exporter as main leaves it before the Run goroutine is scheduled
InitExporter ==
    /\ euriborRate = [m \in maturityURLs |-> Absent]
    /\ euriborLastUpdate = [m \in maturityURLs |-> Absent]
    /\ euriborPubDate = [m \in maturityURLs |-> Absent]
    /\ euriborScrapeDuration = [m \in maturityURLs |-> Absent]
    /\ euriborScrapeSuccess = [m \in maturityURLs |-> Absent]
    /\ euriborDailyRate = [m \in maturityURLs |-> Absent]
    /\ euriborDailyPublicationDate = [m \in maturityURLs |-> Absent]
    /\ euriborDailyScrapeSuccess = [m \in maturityURLs |-> Absent]
    /\ euriborDailyScrapeDuration = [m \in maturityURLs |-> Absent]
    /\ ecbEnabled \in BOOLEAN
    /\ runPc = "idle"
    /\ todo = {}
    /\ cur = NoMaturity
    /\ tickPending = FALSE
    /\ ticks = 0
    /\ stopCh = "open"
    /\ mainPc = "serving"
    /\ now = StartTime
    /\ webSite = [m \in maturityURLs |-> IF m = "1W" THEN WebDocB ELSE WebDocA]
    /\ ecbApi = [m \in maturityURLs |-> IF m = "12M" THEN EcbRespB ELSE EcbRespA]
    /\ changes = 0
    /\ attempts = [p \in Pairs |-> 0]
    /\ received = [p \in Pairs |-> NeverFetched]
    /\ lastSuccess = [p \in Pairs |-> Failure]

Init ==
    /\ InitExporter
    /\ input = NoInput
    /\ output = NotRun

----------------------------------------------------------------------------
(* Update orchestrator                                                     *)

\* GetSupportedMaturities with a bug: the keys of the wrong map
GetSupportedMaturities_EcbKeys == DOMAIN maturities

\* scraper.GetSupportedMaturities: the keys of maturityURLs (the loop of
\* UpdateMetrics visits them in the map's iteration order, any order)
GetSupportedMaturities == maturityURLs

\* publishDaily with a bug: a failed fetch resets the published rate
publishDaily_ResetOnError(maturity, r, duration) ==
    /\ euriborDailyScrapeDuration' =
           [euriborDailyScrapeDuration EXCEPT ![maturity] = Val(duration)]
    /\ euriborDailyScrapeSuccess' =
           [euriborDailyScrapeSuccess EXCEPT
               ![maturity] = Val(IF r.ok THEN 1 ELSE 0)]
    /\ euriborDailyRate' =
           [euriborDailyRate EXCEPT
               ![maturity] = Val(IF r.ok THEN r.Rate ELSE Decimal(0, 0))]
    /\ euriborDailyPublicationDate' =
           [euriborDailyPublicationDate EXCEPT
               ![maturity] = IF r.ok THEN Val(r.PublicationDate) ELSE @]

\* publishDaily with a bug: the publication date is the time of the fetch
publishDaily_StampNow(maturity, r, duration) ==
    /\ euriborDailyScrapeDuration' =
           [euriborDailyScrapeDuration EXCEPT ![maturity] = Val(duration)]
    /\ euriborDailyScrapeSuccess' =
           [euriborDailyScrapeSuccess EXCEPT
               ![maturity] = Val(IF r.ok THEN 1 ELSE 0)]
    /\ euriborDailyRate' =
           [euriborDailyRate EXCEPT
               ![maturity] = IF r.ok THEN Val(r.Rate) ELSE @]
    /\ euriborDailyPublicationDate' =
           [euriborDailyPublicationDate EXCEPT
               ![maturity] = IF r.ok THEN Val(now) ELSE @]

\* the publication half of updateDailyMetrics, after the fetch returned r
publishDaily(maturity, r, duration) ==
    /\ euriborDailyScrapeDuration' =
           [euriborDailyScrapeDuration EXCEPT ![maturity] = Val(duration)]
    /\ IF ~r.ok
       THEN /\ euriborDailyScrapeSuccess' =
                   [euriborDailyScrapeSuccess EXCEPT ![maturity] = Val(0)]
            /\ UNCHANGED <<euriborDailyRate, euriborDailyPublicationDate>>
       ELSE /\ euriborDailyRate' =
                   [euriborDailyRate EXCEPT ![maturity] = Val(r.Rate)]
            /\ euriborDailyPublicationDate' =
                   [euriborDailyPublicationDate EXCEPT
                       ![maturity] = Val(r.PublicationDate)]
            /\ euriborDailyScrapeSuccess' =
                   [euriborDailyScrapeSuccess EXCEPT ![maturity] = Val(1)]

\* the instants the clock of the model takes
Instants == StartTime .. (StartTime + MaxTicks)

\* FetchRateFromWeb, tabulated over the answers and instants of the model
webFetched ==
    [maturity \in maturityURLs, resp \in WebResponses, t \in Instants |->
        FetchRateFromWeb(maturity, resp, t)]

\* FetchRateFromECB, tabulated likewise, per iteration order of the map
ecbFetched ==
    [maturity \in maturityURLs, resp \in ECBResponses, t \in Instants |->
        [order \in KeyOrders(resp) |->
            FetchRateFromECB(maturity, resp, order, t)]]

\* updateDailyMetrics, resp being what the web site answers to this call;
\* time.Since(startTime) is the latency of the answer
updateDailyMetrics(maturity, resp) ==
    LET r        == webFetched[maturity, resp, now]
        duration == resp.latency
    IN  /\ publishDaily(maturity, r, duration)
        /\ attempts' = [attempts EXCEPT ![<<maturity, "web">>] = @ + 1]
        /\ received' = [received EXCEPT ![<<maturity, "web">>] = resp]
        /\ lastSuccess' = IF r.ok THEN [lastSuccess EXCEPT ![<<maturity, "web">>] = r]
                           ELSE lastSuccess
        /\ UNCHANGED ecbMetrics

\* publishECB with a bug: a rate once published is not superseded
publishECB_KeepFirst(maturity, r, duration) ==
    /\ euriborScrapeDuration' =
           [euriborScrapeDuration EXCEPT ![maturity] = Val(duration)]
    /\ IF ~r.ok
       THEN /\ euriborScrapeSuccess' =
                   [euriborScrapeSuccess EXCEPT ![maturity] = Val(0)]
            /\ UNCHANGED <<euriborRate, euriborPubDate>>
       ELSE /\ euriborRate' =
                   IF euriborRate[maturity].set THEN euriborRate
                   ELSE [euriborRate EXCEPT ![maturity] = Val(r.Rate)]
            /\ euriborPubDate' =
                   [euriborPubDate EXCEPT ![maturity] = Val(r.PublicationDate)]
            /\ euriborScrapeSuccess' =
                   [euriborScrapeSuccess EXCEPT ![maturity] = Val(1)]
    /\ UNCHANGED euriborLastUpdate

\* the publication half of updateECBMetrics, after the fetch returned r
publishECB(maturity, r, duration) ==
    /\ euriborScrapeDuration' =
           [euriborScrapeDuration EXCEPT ![maturity] = Val(duration)]
    /\ IF ~r.ok
       THEN /\ euriborScrapeSuccess' =
                   [euriborScrapeSuccess EXCEPT ![maturity] = Val(0)]
            /\ UNCHANGED <<euriborRate, euriborPubDate>>
       ELSE /\ euriborRate' = [euriborRate EXCEPT ![maturity] = Val(r.Rate)]
            /\ euriborPubDate' =
                   [euriborPubDate EXCEPT ![maturity] = Val(r.PublicationDate)]
            /\ euriborScrapeSuccess' =
                   [euriborScrapeSuccess EXCEPT ![maturity] = Val(1)]
    /\ UNCHANGED euriborLastUpdate

\* ecbSupported with a bug: the guard lets every maturity through
ecbSupported_Always(maturity) == TRUE

\* the guard at the top of updateECBMetrics
ecbSupported(maturity) == maturity \in DOMAIN maturities

\* updateECBMetrics, resp being what the ECB API answers to this call:
\* skipped for a maturity the maturities map lacks
updateECBMetrics(maturity, resp, order) ==
    IF ~ecbSupported(maturity)
    THEN UNCHANGED <<ecbMetrics, attempts, received, lastSuccess>>
    ELSE LET r        == ecbFetched[maturity, resp, now][order]
             duration == resp.latency
         IN  /\ publishECB(maturity, r, duration)
             /\ attempts' = [attempts EXCEPT ![<<maturity, "ecb">>] = @ + 1]
             /\ received' = [received EXCEPT ![<<maturity, "ecb">>] = resp]
             /\ lastSuccess' = IF r.ok THEN [lastSuccess EXCEPT ![<<maturity, "ecb">>] = r]
                                ELSE lastSuccess

\* nextIteration with a bug: a failed web fetch ends the pass
nextIteration_AbortOnError(maturity) ==
    /\ todo' = IF euriborDailyScrapeSuccess'[maturity] = Val(0)
               THEN {} ELSE todo \ {maturity}
    /\ cur' = NoMaturity
    /\ runPc' = IF todo' = {} THEN "wait" ELSE "daily"

\* the end of one iteration of the loop of UpdateMetrics; after the last
\* one UpdateMetrics returns into the select loop of Run
nextIteration(maturity) ==
    /\ todo' = todo \ {maturity}
    /\ cur' = NoMaturity
    /\ runPc' = IF todo \ {maturity} = {} THEN "wait" ELSE "daily"

\* entry of UpdateMetrics
beginPass ==
    /\ todo' = GetSupportedMaturities
    /\ cur' = NoMaturity
    /\ runPc' = "daily"
    /\ attempts' = [p \in Pairs |-> 0]

\* a source is asked about a maturity and answers resp: what it answered
\* before, or something else, which it does MaxUpstreamChanges times in a run
answer(site, maturity, resp) ==
    /\ resp # site[maturity] => changes < MaxUpstreamChanges
    /\ changes' = IF resp # site[maturity] THEN changes + 1 ELSE changes

\* one loop iteration of UpdateMetrics, first half: the web source
UpdateDaily ==
    /\ alive
    /\ runPc = "daily"
    /\ \E maturity \in todo :
          /\ \E resp \in WebResponses :
                /\ answer(webSite, maturity, resp)
                /\ webSite' = [webSite EXCEPT ![maturity] = resp]
                /\ updateDailyMetrics(maturity, resp)
          /\ IF ecbEnabled
             THEN /\ runPc' = "ecb"
                  /\ cur' = maturity
                  /\ UNCHANGED todo
             ELSE nextIteration(maturity)
    /\ UNCHANGED <<ecbEnabled, tickPending, ticks, stopCh, mainPc, now, ecbApi>>
    /\ UNCHANGED parseVars

\* one loop iteration of UpdateMetrics, second half: the ECB source
UpdateECB ==
    /\ alive
    /\ runPc = "ecb"
    /\ \E resp \in IF ecbSupported(cur) THEN ECBResponses ELSE {ecbApi[cur]} :
          /\ answer(ecbApi, cur, resp)
          /\ ecbApi' = [ecbApi EXCEPT ![cur] = resp]
          /\ \E order \in KeyOrders(resp) : updateECBMetrics(cur, resp, order)
    /\ UNCHANGED <<dailyMetrics, ecbEnabled, tickPending, ticks, stopCh,
                   mainPc, now, webSite>>
    /\ nextIteration(cur)
    /\ UNCHANGED parseVars

----------------------------------------------------------------------------
(* Scheduler: EuriborExporter.Run                                          *)

\* RunStart with a bug: Run goes to the select loop without the initial update
RunStart_NoInitialUpdate ==
    /\ alive
    /\ runPc = "idle"
    /\ runPc' = "wait"
    /\ UNCHANGED <<ecbMetrics, dailyMetrics, ecbEnabled, todo, cur, tickPending,
                   ticks, stopCh, mainPc, now, upstream, attempts, received,
                   lastSuccess>>
    /\ UNCHANGED parseVars

\* Run starts: the ticker is created and the initial update begins
RunStart ==
    /\ alive
    /\ runPc = "idle"
    /\ beginPass
    /\ UNCHANGED <<ecbMetrics, dailyMetrics, ecbEnabled, tickPending, ticks,
                   stopCh, mainPc, now, upstream, received,
                   lastSuccess>>
    /\ UNCHANGED parseVars

\* one interval elapses and the ticker fires; a tick that finds ticker.C
\* full is dropped.  The clock counts intervals from StartTime on.
Tick ==
    /\ alive
    /\ runPc \in {"daily", "ecb", "wait"}
    /\ ticks < MaxTicks
    /\ ticks' = ticks + 1
    /\ now' = now + 1
    /\ tickPending' = TRUE
    /\ UNCHANGED <<ecbMetrics, dailyMetrics, ecbEnabled, runPc, todo, cur,
                   stopCh, mainPc, upstream, attempts, received,
                   lastSuccess>>
    /\ UNCHANGED parseVars

\* select, case <-ticker.C: a scheduled update begins
SelectTick ==
    /\ alive
    /\ runPc = "wait"
    /\ tickPending
    /\ tickPending' = FALSE
    /\ beginPass
    /\ UNCHANGED <<ecbMetrics, dailyMetrics, ecbEnabled, ticks, stopCh,
                   mainPc, now, upstream, received,
                   lastSuccess>>
    /\ UNCHANGED parseVars

\* select, case <-stopCh: Run returns
SelectStop ==
    /\ alive
    /\ runPc = "wait"
    /\ stopCh = "closed"
    /\ runPc' = "stopped"
    /\ UNCHANGED <<ecbMetrics, dailyMetrics, ecbEnabled, todo, cur,
                   tickPending, ticks, stopCh, mainPc, now, upstream,
                   attempts, received,
                   lastSuccess>>
    /\ UNCHANGED parseVars

----------------------------------------------------------------------------
(* main                                                                    *)

\* <-sigCh; close(stopCh)
Signal ==
    /\ mainPc = "serving"
    /\ stopCh' = "closed"
    /\ mainPc' = "shutdown"
    /\ UNCHANGED <<ecbMetrics, dailyMetrics, ecbEnabled, runPc, todo, cur,
                   tickPending, ticks, now, upstream, attempts, received,
                   lastSuccess>>
    /\ UNCHANGED parseVars

\* server.Shutdown returns and main returns: the process ends
MainExit ==
    /\ mainPc = "shutdown"
    /\ mainPc' = "exited"
    /\ UNCHANGED <<ecbMetrics, dailyMetrics, ecbEnabled, runPc, todo, cur,
                   tickPending, ticks, stopCh, now, upstream, attempts,
                   received,
                   lastSuccess>>
    /\ UNCHANGED parseVars

Next ==
    \/ RunStart
    \/ UpdateDaily
    \/ UpdateECB
    \/ Tick
    \/ SelectTick
    \/ SelectStop
    \/ Signal
    \/ MainExit

Spec == Init /\ [][Next]_vars

\* Scheduling the code can rely on: a runnable goroutine runs, every network
\* call ends (the clients' timeouts), and server.Shutdown returns within its
\* five-second context.  The select of Run takes some ready case, no matter
\* which.  Signals and ticks are not promised.
Fairness ==
    /\ WF_vars(RunStart)
    /\ WF_vars(UpdateDaily)
    /\ WF_vars(UpdateECB)
    /\ WF_vars(SelectTick \/ SelectStop)
    /\ WF_vars(MainExit)

FairSpec == Spec /\ Fairness

----------------------------------------------------------------------------
(* The scraper's functions called on their own, as the package's tests do: *)
(* the input is drawn from a bounded set, one call is made, and its result  *)
(* is kept in output.                                                      *)

\* longest rate text tried
MaxRateLen == 4

RateAlphabet == {"0", "5", "-", ".", ",", "%", " ", "x"}

RECURSIVE TextsUpTo(_, _)
TextsUpTo(alphabet, n) ==
    IF n = 0 THEN {<< >>}
    ELSE LET shorter == TextsUpTo(alphabet, n - 1)
         IN  shorter \cup {Append(s, c) : s \in shorter, c \in alphabet}

RateTexts == TextsUpTo(RateAlphabet, MaxRateLen)

NumFields ==
    {<<"0", "3">>, <<"0", "4">>, <<"1", "3">>, <<"3">>, <<"3", "1">>,
     <<"0", "2">>, <<"0", "0">>, <<"2", "0", "2", "5">>}

Separators == {"/", "-", "."}

\* three digit fields with two separators in between
NumericDateTexts ==
    {f1 \o <<s1>> \o f2 \o <<s2>> \o f3 :
        f1 \in NumFields, f2 \in NumFields, f3 \in NumFields,
        s1 \in Separators, s2 \in Separators}

NameParts ==
    {<<"D", "e", "c">>, <<"d", "e", "c">>, <<"D", "e", "z">>,
     <<"D", "e", "c", "e", "m", "b", "e", "r">>}

Gaps == {<< >>, <<" ">>, <<" ", " ">>}

DayParts == {<<"3">>, <<"1", "3">>, <<"3", "2">>}

YearParts == {<<"2", "0", "2", "5">>, <<"2", "5">>}

\* month-name dates, month first and day first
NamedDateTexts ==
    {n \o g1 \o d \o c \o g2 \o y :
        n \in NameParts, g1 \in Gaps, d \in DayParts, c \in {<< >>, <<",">>},
        g2 \in Gaps, y \in YearParts}
    \cup
    {d \o g1 \o n \o g2 \o y :
        d \in DayParts, g1 \in Gaps, n \in NameParts, g2 \in Gaps,
        y \in YearParts}

OtherDateTexts ==
    {<< >>,
     <<"i", "n", "v", "a", "l", "i", "d">>,
     <<" ", "1", "2", "/", "1", "3", "/", "2", "0", "2", "5", " ">>,
     <<"1", "2", "/", "1", "3", "/", "2", "0", "2", "5", "x">>,
     <<"1", "2", "/", "1", "3", "/", "2", "0", "2", "5">>,
     <<"2", "0", "2", "5", "-", "1", "2", "-", "1", "3">>}

DateTexts == NumericDateTexts \cup NamedDateTexts \cup OtherDateTexts

DocDateTexts ==
    {<<"1", "2", "/", "1", "3", "/", "2", "0", "2", "5">>,
     <<"3", "1", "/", "0", "2", "/", "2", "0", "2", "5">>,
     <<"n", "/", "a">>,
     << >>}

DocRateTexts ==
    {<<"2", ".", "5", "2", "4", " ", "%">>,
     <<"-", "0", ",", "1">>,
     <<"1", ".", "2", ".", "3">>,
     <<"n", "/", "a">>,
     << >>}

\* documents: no table at all, or one table (with the marker class and a
\* tbody, or plain) whose first row has the two cells
Docs ==
    {<< >>}
    \cup {oneRowDoc(d, r) : d \in DocDateTexts, r \in DocRateTexts}
    \cup {<< [marker |-> FALSE,
              rows |-> << [body |-> FALSE, cells |-> <<d, r>>] >>] >> :
            d \in DocDateTexts, r \in DocRateTexts}

ParseInputs ==
    {[kind |-> "rate", text |-> s] : s \in RateTexts}
    \cup {[kind |-> "date", text |-> s] : s \in DateTexts}
    \cup {[kind |-> "doc", doc |-> d, at |-> StartTime + k] :
            d \in Docs, k \in 0..1}

InitParse ==
    /\ InitExporter
    /\ input \in ParseInputs
    /\ output = NotRun

CallParseRate ==
    /\ input.kind = "rate"
    /\ ~output.run
    /\ output' = [run |-> TRUE, res |-> parseRate(input.text)]
    /\ UNCHANGED <<ecbMetrics, dailyMetrics, ecbEnabled, runPc, todo, cur,
                   tickPending, ticks, stopCh, mainPc, now, upstream, attempts,
                   received, lastSuccess, input>>

CallParseDate ==
    /\ input.kind = "date"
    /\ ~output.run
    /\ output' = [run |-> TRUE, res |-> parseDate(input.text)]
    /\ UNCHANGED <<ecbMetrics, dailyMetrics, ecbEnabled, runPc, todo, cur,
                   tickPending, ticks, stopCh, mainPc, now, upstream, attempts,
                   received, lastSuccess, input>>

CallExtractData ==
    /\ input.kind = "doc"
    /\ ~output.run
    /\ output' = [run |-> TRUE, res |-> extractData(input.doc, input.at)]
    /\ UNCHANGED <<ecbMetrics, dailyMetrics, ecbEnabled, runPc, todo, cur,
                   tickPending, ticks, stopCh, mainPc, now, upstream, attempts,
                   received, lastSuccess, input>>

NextParse ==
    \/ CallParseRate
    \/ CallParseDate
    \/ CallExtractData

SpecParse == InitParse /\ [][NextParse]_vars

----------------------------------------------------------------------------
(* Properties of the orchestrator and the scheduler                        *)

\* the step is a fetch of the pair
Attempted(m, src) == attempts'[<<m, src>>] = attempts[<<m, src>>] + 1

\* what the adapters return for the answers the step receives
webResult(m) == FetchRateFromWeb(m, webSite'[m], now)

ecbOk(m) ==
    \A o \in KeyOrders(ecbApi'[m]) : FetchRateFromECB(m, ecbApi'[m], o, now).ok

ecbFailed(m) ==
    \A o \in KeyOrders(ecbApi'[m]) : ~FetchRateFromECB(m, ecbApi'[m], o, now).ok

\* the pair is one the orchestrator fetches
Applicable(m, src) ==
    IF src = "web" THEN TRUE ELSE ecbEnabled /\ m \in DOMAIN maturities

dailyCells(m) == <<euriborDailyRate[m], euriborDailyPublicationDate[m],
                   euriborDailyScrapeSuccess[m], euriborDailyScrapeDuration[m]>>

ecbCells(m) == <<euriborRate[m], euriborPubDate[m], euriborScrapeSuccess[m],
                 euriborScrapeDuration[m], euriborLastUpdate[m]>>

\* C1: a failed fetch of a pair leaves the pair's published rate and
\* publication date as they were; it sets the pair's success flag to 0 and
\* overwrites its duration with the duration of the failed call.
C1_FailedFetchKeepsValue ==
    [][\A m \in maturityURLs :
        /\ (Attempted(m, "web") /\ ~webResult(m).ok) =>
              /\ euriborDailyRate'[m] = euriborDailyRate[m]
              /\ euriborDailyPublicationDate'[m] = euriborDailyPublicationDate[m]
              /\ euriborDailyScrapeSuccess'[m] = Val(0)
              /\ euriborDailyScrapeDuration'[m] = Val(webSite'[m].latency)
        /\ (Attempted(m, "ecb") /\ ecbFailed(m)) =>
              /\ euriborRate'[m] = euriborRate[m]
              /\ euriborPubDate'[m] = euriborPubDate[m]
              /\ euriborScrapeSuccess'[m] = Val(0)
              /\ euriborScrapeDuration'[m] = Val(ecbApi'[m].latency)]_vars

\* a pair that published a rate earlier has just failed: the rate is still
\* there, with success 0 and the duration of the failed call
C1_Witness ==
    \E m \in maturityURLs :
        /\ received[<<m, "web">>] = WebDown
        /\ euriborDailyScrapeSuccess[m] = Val(0)
        /\ euriborDailyScrapeDuration[m] = Val(WebDown.latency)
        /\ euriborDailyRate[m] = Val(Decimal(2524, 3))

\* C2: in a pass every applicable pair is fetched at most once, and exactly
\* once when the pass returns, whatever the other fetches returned; a fetch
\* of one pair changes no cell of another maturity or of the other source;
\* a fetch that succeeds publishes its fresh rate with success 1.
C2_PartialFailureIndependence ==
    /\ [](\A p \in Pairs :
            /\ attempts[p] <= 1
            /\ runPc \in {"wait", "stopped"} =>
                  attempts[p] = IF Applicable(p[1], p[2]) THEN 1 ELSE 0)
    /\ [][\A m \in maturityURLs :
            /\ Attempted(m, "web") =>
                  /\ \A m2 \in maturityURLs \ {m} :
                        /\ dailyCells(m2)' = dailyCells(m2)
                        /\ ecbCells(m2)' = ecbCells(m2)
                  /\ ecbCells(m)' = ecbCells(m)
                  /\ webResult(m).ok =>
                        /\ euriborDailyScrapeSuccess'[m] = Val(1)
                        /\ euriborDailyRate'[m] = Val(webResult(m).Rate)
            /\ Attempted(m, "ecb") =>
                  /\ \A m2 \in maturityURLs \ {m} :
                        /\ dailyCells(m2)' = dailyCells(m2)
                        /\ ecbCells(m2)' = ecbCells(m2)
                  /\ dailyCells(m)' = dailyCells(m)
                  /\ ecbOk(m) => euriborScrapeSuccess'[m] = Val(1)]_vars

\* a pass has returned in which one web fetch failed and every other pair
\* of both sources published success 1
C2_Witness ==
    /\ runPc = "wait"
    /\ ecbEnabled
    /\ \E m \in maturityURLs :
          /\ received[<<m, "web">>] = WebDown
          /\ euriborDailyScrapeSuccess[m] = Val(0)
          /\ \A m2 \in maturityURLs \ {m} : euriborDailyScrapeSuccess[m2] = Val(1)
          /\ \A m2 \in DOMAIN maturities : euriborScrapeSuccess[m2] = Val(1)

\* C3: every maturity of a pass is fetched from the web; a pair of the ECB
\* source is fetched only if ecbEnabled holds and the maturity is a key of
\* the maturities map; for any other maturity no ECB cell (rate, publication
\* date, success, duration) is ever written.
C3_EcbOnlyWhenEnabledAndMapped ==
    \A m \in maturityURLs :
        /\ runPc \in {"wait", "stopped"} => attempts[<<m, "web">>] = 1
        /\ ~(ecbEnabled /\ m \in DOMAIN maturities) =>
              /\ attempts[<<m, "ecb">>] = 0
              /\ received[<<m, "ecb">>] = NeverFetched
              /\ euriborRate[m] = Absent
              /\ euriborPubDate[m] = Absent
              /\ euriborScrapeSuccess[m] = Absent
              /\ euriborScrapeDuration[m] = Absent

\* a second pass has returned with the ECB source enabled: the four mapped
\* maturities have ECB cells, 1W has web cells only
C3_Witness ==
    /\ ecbEnabled
    /\ runPc = "wait"
    /\ ticks = MaxTicks /\ ~tickPending
    /\ euriborDailyScrapeSuccess["1W"] = Val(1)
    /\ euriborScrapeSuccess["1W"] = Absent
    /\ \A m \in DOMAIN maturities : euriborScrapeSuccess[m] = Val(1)

\* C4: a pass is never cut short: when the process ends, no pass is in
\* flight (every fetch of a pass that began has been made and published).
C4_NoPassCutShort == mainPc = "exited" => runPc \notin {"daily", "ecb"}

\* C5: Run goes from its start straight into a full pass, whatever the stop
\* channel and the ticker say, and waits only after that pass returned; a
\* later pass begins only by taking a tick out of ticker.C; and while
\* stopCh is open a tick in ticker.C leads to the beginning of a pass.
C5_InitialPassThenTicks ==
    /\ [](runPc \in {"wait", "stopped"} =>
             \A m \in maturityURLs : attempts[<<m, "web">>] = 1)
    /\ [][runPc = "idle" /\ runPc' # "idle" =>
             runPc' = "daily" /\ todo' = GetSupportedMaturities]_vars
    /\ [][runPc \notin {"daily", "ecb"} /\ runPc' \in {"daily", "ecb"} =>
             \/ runPc = "idle"
             \/ runPc = "wait" /\ tickPending /\ ~tickPending']_vars
    /\ [][tickPending /\ ~tickPending' => runPc = "wait" /\ runPc' = "daily"]_vars
    /\ ((tickPending /\ stopCh = "open") ~> (~tickPending \/ stopCh = "closed"))

\* the initial pass has returned although stopCh was closed before it
\* ended, and no tick was ever fired
C5_Witness ==
    /\ runPc = "wait"
    /\ stopCh = "closed"
    /\ ticks = 0
    /\ \A m \in maturityURLs : attempts[<<m, "web">>] = 1

\* C6: once stopCh is closed Run returns, and after Run has returned no
\* pass runs again.
C6_StopLeadsToStopped ==
    /\ (stopCh = "closed") ~> (runPc = "stopped")
    /\ [][runPc = "stopped" => runPc' = "stopped"]_vars

\* the publication date of the pair comes from the answer, not the clock
webDateFromAnswer(m) ==
    FetchRateFromWeb(m, webSite'[m], 0) = FetchRateFromWeb(m, webSite'[m], 1)

ecbDateFromAnswer(m) ==
    \A o \in KeyOrders(ecbApi'[m]) :
        FetchRateFromECB(m, ecbApi'[m], o, 0) = FetchRateFromECB(m, ecbApi'[m], o, 1)

\* the fetch receives the answer the pair's fetch of the pass before received
SameAnswer(m, src) ==
    /\ Attempted(m, src)
    /\ received[<<m, src>>] = IF src = "web" THEN webSite'[m] ELSE ecbApi'[m]

\* C8 as stated: a pair that receives in two consecutive passes the same
\* answer, one its fetch succeeds on, publishes the same rate and the same
\* publication date both times, with success 1 both times.
C8_IdenticalRerunOriginal ==
    [][\A m \in maturityURLs :
        /\ (SameAnswer(m, "web") /\ webResult(m).ok) =>
              /\ euriborDailyScrapeSuccess[m] = Val(1)
              /\ euriborDailyScrapeSuccess'[m] = Val(1)
              /\ euriborDailyRate'[m] = euriborDailyRate[m]
              /\ euriborDailyPublicationDate'[m] = euriborDailyPublicationDate[m]
        /\ (SameAnswer(m, "ecb") /\ ecbOk(m)) =>
              /\ euriborScrapeSuccess[m] = Val(1)
              /\ euriborScrapeSuccess'[m] = Val(1)
              /\ euriborRate'[m] = euriborRate[m]
              /\ euriborPubDate'[m] = euriborPubDate[m]]_vars

\* C8 amended: the same answer twice publishes the same rate with success 1
\* both times; the publication date is the same too when it is taken from
\* the answer, and is the clock of each fetch when the answer has no date
\* that parses.
C8_IdenticalRerun ==
    [][\A m \in maturityURLs :
        /\ (SameAnswer(m, "web") /\ webResult(m).ok) =>
              /\ euriborDailyScrapeSuccess[m] = Val(1)
              /\ euriborDailyScrapeSuccess'[m] = Val(1)
              /\ euriborDailyRate'[m] = euriborDailyRate[m]
              /\ euriborDailyPublicationDate'[m] =
                     IF webDateFromAnswer(m) THEN euriborDailyPublicationDate[m]
                     ELSE Val(now)
        /\ (SameAnswer(m, "ecb") /\ ecbOk(m)) =>
              /\ euriborScrapeSuccess[m] = Val(1)
              /\ euriborScrapeSuccess'[m] = Val(1)
              /\ euriborRate'[m] = euriborRate[m]
              /\ euriborPubDate'[m] =
                     IF ecbDateFromAnswer(m) THEN euriborPubDate[m] ELSE Val(now)]_vars

\* two passes have returned and both received the same answers: 1W an
\* answer whose date cell no layout reads, so that its publication date is
\* the clock of the second fetch, 1M an answer with a date, so that its
\* publication date is that date; both show success 1
C8_Witness ==
    /\ changes = 0
    /\ runPc = "wait"
    /\ ticks = MaxTicks /\ ~tickPending
    /\ \A m \in maturityURLs :
          /\ attempts[<<m, "web">>] = 1
          /\ received[<<m, "web">>] = webSite[m]
          /\ euriborDailyScrapeSuccess[m] = Val(1)
    /\ webSite["1W"] = WebDocB
    /\ euriborDailyPublicationDate["1W"] = Val(StartTime + MaxTicks)
    /\ webSite["1M"] = WebDocA
    /\ euriborDailyPublicationDate["1M"] = Val(timeDate(2025, 12, 13))

----------------------------------------------------------------------------
(* Properties of the scraper's functions                                   *)

\* the row extractData reads from the document of the input
rowOf(doc) ==
    IF doc = << >> THEN [found |-> FALSE]
    ELSE [found   |-> TRUE,
          dateStr |-> Head(doc).rows[1].cells[1],
          rateStr |-> Head(doc).rows[1].cells[2]]

\* C7: extraction fails when the rate cell does not parse; when the rate
\* cell parses and the date cell does not, it succeeds with the parsed rate
\* and the wall-clock time of the call as publication date.
C7_FailSoftOnDateOnly ==
    (input.kind = "doc" /\ output.run /\ rowOf(input.doc).found) =>
        LET row  == rowOf(input.doc)
            rate == parseRate(row.rateStr)
            date == parseDate(row.dateStr)
        IN  /\ ~rate.ok => ~output.res.ok
            /\ (rate.ok /\ ~date.ok) =>
                   /\ output.res.ok
                   /\ output.res.Rate = rate.val
                   /\ output.res.PublicationDate = input.at
            /\ (rate.ok /\ date.ok) =>
                   /\ output.res.ok
                   /\ output.res.Rate = rate.val
                   /\ output.res.PublicationDate = Unix(date.date)

\* a negative rate with a decimal comma was extracted next to a date cell
\* that no layout reads, one interval after the start
C7_Witness ==
    /\ input.kind = "doc"
    /\ output.run
    /\ rowOf(input.doc).found
    /\ rowOf(input.doc).dateStr = <<"n", "/", "a">>
    /\ rowOf(input.doc).rateStr = <<"-", "0", ",", "1">>
    /\ input.at = StartTime + 1
    /\ output.res.ok
    /\ output.res.Rate = Decimal(-1, 1)
    /\ output.res.PublicationDate = StartTime + 1

\* --- numerals, read independently of parseRate ---

NumeralChars == Digits \cup {".", ",", "-"}

RECURSIVE Pow10(_)
Pow10(n) == IF n = 0 THEN 1 ELSE 10 * Pow10(n - 1)

RECURSIVE DigitsValue(_)
DigitsValue(f) ==
    IF f = << >> THEN 0
    ELSE DigitsValue(SubSeq(f, 1, Len(f) - 1)) * 10 + DigitVal(f[Len(f)])

AllDigits(f) == \A i \in 1..Len(f) : f[i] \in Digits

\* -?D+([.,]D+)?
IsNumeral(n) ==
    LET body == IF n # << >> /\ Head(n) = "-" THEN Tail(n) ELSE n
        seps == {i \in 1..Len(body) : body[i] \in {".", ","}}
    IN  /\ body # << >>
        /\ \A i \in 1..Len(body) : body[i] \in Digits \cup {".", ","}
        /\ \/ seps = {}
           \/ \E i \in seps : seps = {i} /\ 1 < i /\ i < Len(body)

\* the value of a numeral, as [num, scale] meaning num / 10^scale
NumeralValue(n) ==
    LET neg  == Head(n) = "-"
        body == IF neg THEN Tail(n) ELSE n
        seps == {i \in 1..Len(body) : body[i] \in {".", ","}}
        frac == IF seps = {} THEN 0 ELSE Len(body) - (CHOOSE i \in seps : TRUE)
        mant == DigitsValue(SelectSeq(body, LAMBDA c : c \in Digits))
    IN  [num |-> IF neg THEN 0 - mant ELSE mant, scale |-> frac]

\* a numeral, then optionally a '%', with whitespace allowed around both
IsRateText(s) ==
    LET nums == {i \in 1..Len(s) : s[i] \in NumeralChars}
        pcts == {i \in 1..Len(s) : s[i] = "%"}
    IN  /\ nums # {}
        /\ \A i \in 1..Len(s) : s[i] \in NumeralChars \cup WhiteSpace \cup {"%"}
        /\ \E lo \in nums, hi \in nums :
              /\ nums = lo..hi
              /\ IsNumeral(SubSeq(s, lo, hi))
              /\ \/ pcts = {}
                 \/ \E k \in pcts : pcts = {k} /\ k > hi

RateValue(s) == NumeralValue(SelectSeq(s, LAMBDA c : c \in NumeralChars))

SameValue(a, b) == a.num * Pow10(b.scale) = b.num * Pow10(a.scale)

\* C9: parseRate returns exactly the signed value of every well-formed
\* numeral ('.' or ',' separator, optional '%', optional whitespace), and
\* an error for every text without a digit.
C9_ParseRateOnNumerals ==
    (input.kind = "rate" /\ output.run) =>
        /\ IsRateText(input.text) =>
               /\ output.res.ok
               /\ SameValue(output.res.val, RateValue(input.text))
        /\ (\A i \in 1..Len(input.text) : input.text[i] \notin Digits) =>
               ~output.res.ok

\* "-0,5" was parsed to minus one half
C9_Witness ==
    /\ input.kind = "rate"
    /\ input.text = <<"-", "0", ",", "5">>
    /\ IsRateText(input.text)
    /\ output.run
    /\ output.res.ok
    /\ output.res.val.num < 0

\* --- dates, read independently of time.Parse ---

\* the layouts in the order the format list is said to have
ClaimedOrder ==
    << [form |-> "numeric", sep |-> "/", fields |-> <<"MM", "DD", "YYYY">>],
       [form |-> "numeric", sep |-> "/", fields |-> <<"DD", "MM", "YYYY">>],
       [form |-> "numeric", sep |-> "-", fields |-> <<"YYYY", "MM", "DD">>],
       [form |-> "numeric", sep |-> "-", fields |-> <<"DD", "MM", "YYYY">>],
       [form |-> "numeric", sep |-> "-", fields |-> <<"MM", "DD", "YYYY">>],
       [form |-> "numeric", sep |-> ".", fields |-> <<"D", "M", "YYYY">>],
       [form |-> "numeric", sep |-> ".", fields |-> <<"DD", "MM", "YYYY">>],
       [form |-> "monthFirst", names |-> "short"],
       [form |-> "dayFirst", names |-> "short"],
       [form |-> "monthFirst", names |-> "long"],
       [form |-> "dayFirst", names |-> "long"] >>

FieldFits(kind, f) ==
    /\ AllDigits(f)
    /\ CASE kind \in {"MM", "DD"} -> Len(f) = 2
         [] kind \in {"M", "D"}   -> Len(f) \in {1, 2}
         [] kind = "YYYY"         -> Len(f) = 4

MonthLengths == <<31, 28, 31, 30, 31, 30, 31, 31, 30, 31, 30, 31>>

IsDate(d) ==
    /\ d.month \in 1..12
    /\ d.day >= 1
    /\ \/ d.day <= MonthLengths[d.month]
       \/ /\ d.month = 2
          /\ d.day = 29
          /\ d.year % 4 = 0
          /\ (d.year % 100 # 0 \/ d.year % 400 = 0)

FieldOf(layout, kinds, f1, f2, f3) ==
    LET k == CHOOSE i \in 1..3 : layout.fields[i] \in kinds
    IN  DigitsValue(<<f1, f2, f3>>[k])

\* the dates a numeric layout reads from s
NumericReadings(layout, s) ==
    {d \in
        {[year  |-> FieldOf(layout, {"YYYY"}, SubSeq(s, 1, i - 1),
                            SubSeq(s, i + 1, j - 1), SubSeq(s, j + 1, Len(s))),
          month |-> FieldOf(layout, {"MM", "M"}, SubSeq(s, 1, i - 1),
                            SubSeq(s, i + 1, j - 1), SubSeq(s, j + 1, Len(s))),
          day   |-> FieldOf(layout, {"DD", "D"}, SubSeq(s, 1, i - 1),
                            SubSeq(s, i + 1, j - 1), SubSeq(s, j + 1, Len(s)))] :
            <<i, j>> \in {p \in (1..Len(s)) \X (1..Len(s)) :
                            /\ p[1] < p[2]
                            /\ s[p[1]] = layout.sep
                            /\ s[p[2]] = layout.sep
                            /\ FieldFits(layout.fields[1], SubSeq(s, 1, p[1] - 1))
                            /\ FieldFits(layout.fields[2],
                                         SubSeq(s, p[1] + 1, p[2] - 1))
                            /\ FieldFits(layout.fields[3],
                                         SubSeq(s, p[2] + 1, Len(s)))}} :
        IsDate(d)}

MonthNames(names) ==
    IF names = "short"
    THEN [k \in 1..12 |-> Chars(shortMonthNames[k])]
    ELSE [k \in 1..12 |-> Chars(longMonthNames[k])]

Blank(s) == s # << >> /\ \A i \in 1..Len(s) : s[i] = " "

SameLetters(a, b) ==
    /\ Len(a) = Len(b)
    /\ \A i \in 1..Len(a) : lower(a[i]) = lower(b[i])

\* the positions where a month name, blanks, a day, a comma, blanks and a
\* year end in s
MonthFirstSplits(names, s) ==
    UNION {UNION {UNION {
        {<<p1, p2, p3, p4>> :
            p4 \in {x \in (p3 + 2)..Len(s) :
                      /\ Blank(SubSeq(s, p3 + 2, x))
                      /\ FieldFits("YYYY", SubSeq(s, x + 1, Len(s)))}} :
        p3 \in {x \in (p2 + 1)..(Len(s) - 1) :
                  /\ FieldFits("D", SubSeq(s, p2 + 1, x))
                  /\ s[x + 1] = ","}} :
        p2 \in {x \in (p1 + 1)..Len(s) : Blank(SubSeq(s, p1 + 1, x))}} :
        p1 \in {x \in 1..Len(s) :
                  \E k \in 1..12 :
                      SameLetters(SubSeq(s, 1, x), MonthNames(names)[k])}}

MonthFirstReadings(names, s) ==
    {d \in
        {[year  |-> DigitsValue(SubSeq(s, q[4] + 1, Len(s))),
          month |-> CHOOSE k \in 1..12 :
                        SameLetters(SubSeq(s, 1, q[1]), MonthNames(names)[k]),
          day   |-> DigitsValue(SubSeq(s, q[2] + 1, q[3]))] :
            q \in MonthFirstSplits(names, s)} :
        IsDate(d)}

\* the positions where a day, blanks, a month name and blanks end in s,
\* a year following
DayFirstSplits(names, s) ==
    UNION {UNION {UNION {
        {<<p1, p2, p3, p4>> :
            p4 \in {x \in (p3 + 1)..Len(s) :
                      /\ Blank(SubSeq(s, p3 + 1, x))
                      /\ FieldFits("YYYY", SubSeq(s, x + 1, Len(s)))}} :
        p3 \in {x \in (p2 + 1)..Len(s) :
                  \E k \in 1..12 :
                      SameLetters(SubSeq(s, p2 + 1, x), MonthNames(names)[k])}} :
        p2 \in {x \in (p1 + 1)..Len(s) : Blank(SubSeq(s, p1 + 1, x))}} :
        p1 \in {x \in 1..Len(s) : FieldFits("D", SubSeq(s, 1, x))}}

DayFirstReadings(names, s) ==
    {d \in
        {[year  |-> DigitsValue(SubSeq(s, q[4] + 1, Len(s))),
          month |-> CHOOSE k \in 1..12 :
                        SameLetters(SubSeq(s, q[2] + 1, q[3]),
                                    MonthNames(names)[k]),
          day   |-> DigitsValue(SubSeq(s, 1, q[1]))] :
            q \in DayFirstSplits(names, s)} :
        IsDate(d)}

Readings(layout, s) ==
    CASE layout.form = "numeric"    -> NumericReadings(layout, s)
      [] layout.form = "monthFirst" -> MonthFirstReadings(layout.names, s)
      [] layout.form = "dayFirst"   -> DayFirstReadings(layout.names, s)

\* the text without the whitespace around it
Core(s) ==
    LET solid == {i \in 1..Len(s) : s[i] \notin WhiteSpace}
    IN  IF solid = {} THEN << >>
        ELSE SubSeq(s, CHOOSE i \in solid : \A j \in solid : i <= j,
                       CHOOSE i \in solid : \A j \in solid : j <= i)

DateIs(year, month, day) ==
    /\ output.res.ok
    /\ output.res.date = [year |-> year, month |-> month, day |-> day]

\* C10: parseDate returns the date read by the first layout, in the stated
\* order, that reads the text, and fails exactly when no layout reads it;
\* 03/04/2025 is March 4, 13/04/2025 is April 13, 03-04-2025 is April 3.
C10_FirstLayoutWins ==
    (input.kind = "date" /\ output.run) =>
        LET s       == Core(input.text)
            reading == {k \in 1..Len(ClaimedOrder) :
                            Readings(ClaimedOrder[k], s) # {}}
        IN  /\ reading = {} <=> ~output.res.ok
            /\ reading # {} =>
                   LET first == CHOOSE k \in reading : \A j \in reading : k <= j
                   IN  Readings(ClaimedOrder[first], s) = {output.res.date}
            /\ input.text = <<"0", "3", "/", "0", "4", "/", "2", "0", "2", "5">>
                   => DateIs(2025, 3, 4)
            /\ input.text = <<"1", "3", "/", "0", "4", "/", "2", "0", "2", "5">>
                   => DateIs(2025, 4, 13)
            /\ input.text = <<"0", "3", "-", "0", "4", "-", "2", "0", "2", "5">>
                   => DateIs(2025, 4, 3)

\* the ambiguous slash date was parsed, month first
C10_Witness ==
    /\ input.kind = "date"
    /\ input.text = <<"0", "3", "/", "0", "4", "/", "2", "0", "2", "5">>
    /\ output.run
    /\ DateIs(2025, 3, 4)

----------------------------------------------------------------------------
(* The supported maturities                                                *)

FiveCodes == {"1W", "1M", "3M", "6M", "12M"}

\* C11: GetSupportedMaturities returns exactly the five codes 1W, 1M, 3M, 6M
\* and 12M, each once and in no fixed order; the orchestrator iterates this
\* set, fetching each code once in a pass, and every key of the ECB lookup
\* table is in it.
C11_SupportedMaturities ==
    /\ GetSupportedMaturities = FiveCodes
    /\ Cardinality(GetSupportedMaturities) = 5
    /\ DOMAIN maturities \subseteq GetSupportedMaturities
    /\ todo \subseteq GetSupportedMaturities
    /\ runPc \in {"daily", "ecb", "wait", "stopped"} =>
           \A m \in FiveCodes :
               attempts[<<m, "web">>] = IF m \in todo \ {cur} THEN 0 ELSE 1

\* a pass has ended: each of the five codes was fetched once from the web
\* site, and each key of the ECB table once from the ECB
C11_Witness ==
    /\ runPc = "wait"
    /\ \A m \in FiveCodes : attempts[<<m, "web">>] = 1
    /\ ecbEnabled
    /\ \A m \in DOMAIN maturities : attempts[<<m, "ecb">>] = 1
    /\ attempts[<<"1W", "ecb">>] = 0

----------------------------------------------------------------------------
(* The last-update gauge                                                   *)

\* C12: a successful ECB fetch of a maturity writes the instant of the fetch
\* to the maturity's euribor_last_update_timestamp, and a failed one leaves
\* that cell as it was.
C12_LastUpdateWrittenOnSuccess ==
    [][\A m \in DOMAIN maturities :
           Attempted(m, "ecb") =>
               /\ ecbOk(m) => euriborLastUpdate'[m] = Val(now)
               /\ ecbFailed(m) => euriborLastUpdate'[m] = euriborLastUpdate[m]]_vars

----------------------------------------------------------------------------
(* extractData called on pages of several tables.  A page is built from    *)
(* its shape: per table the marker class and per row the section (tbody or *)
(* not) and the number of td cells.  The rate cell of row r of table t     *)
(* reads "t.r", so the result tells which row was taken.                   *)

\* most tables of a page
MaxTables == 2

\* most rows of a table
MaxRows == 2

SeqsUpTo(S, n) == UNION {[1..k -> S] : k \in 0..n}

\* a row without td cells (a header row), with two, or with three
RowShapes == {[body |-> b, n |-> n] : b \in BOOLEAN, n \in {0, 2, 3}}

TableShapes ==
    {[marker |-> mk, rows |-> rs] :
        mk \in BOOLEAN, rs \in SeqsUpTo(RowShapes, MaxRows)}

digitOf(n) == CHOOSE c \in Digits : DigitVal(c) = n

pageCells(t, r, n) ==
    SubSeq(<< <<"1", "2", "/", "1", "3", "/", "2", "0", "2", "5">>,
              <<digitOf(t), ".", digitOf(r)>>,
              <<"x">> >>, 1, n)

pageOf(shape) ==
    [t \in 1..Len(shape) |->
        [marker |-> shape[t].marker,
         rows   |-> [r \in 1..Len(shape[t].rows) |->
                        [body  |-> shape[t].rows[r].body,
                         cells |-> pageCells(t, r, shape[t].rows[r].n)]]]]

Pages == {pageOf(shape) : shape \in SeqsUpTo(TableShapes, MaxTables)}

InitPages ==
    /\ InitExporter
    /\ input \in {[kind |-> "doc", doc |-> p, at |-> StartTime] : p \in Pages}
    /\ output = NotRun

SpecPages == InitPages /\ [][CallExtractData]_vars

\* the tables whose first row, among the rows given, has two cells or more
firstRowQualifies(rows) == rows # << >> /\ Len(Head(rows).cells) >= 2

MarkerHits(doc) ==
    {t \in 1..Len(doc) :
        /\ doc[t].marker
        /\ firstRowQualifies(SelectSeq(doc[t].rows, LAMBDA r : r.body))}

\* any table counts as generic here, the marked ones too
GenericHits(doc) ==
    {t \in 1..Len(doc) : firstRowQualifies(doc[t].rows)}

Least(S) == CHOOSE i \in S : \A j \in S : i <= j

\* extraction returned the rate of row r of table t
Took(t, r) ==
    /\ output.res.ok
    /\ output.res.Rate = Decimal(10 * t + r, 1)
    /\ output.res.PublicationDate = Unix([year |-> 2025, month |-> 12, day |-> 13])

\* C13: extraction takes the first data row of a table with the marker
\* class when that row has two cells or more, wherever generic tables stand
\* in the document; failing that, the first row of the first table whose
\* first row has two cells or more, so that a document with such a table
\* never fails; failing both, it fails.
C13_StrategiesInOrder ==
    (input.kind = "doc" /\ input.doc \in Pages /\ output.run) =>
        LET doc == input.doc
            mh  == MarkerHits(doc)
            gh  == GenericHits(doc)
        IN  IF mh # {}
            THEN Took(Least(mh),
                      Least({r \in 1..Len(doc[Least(mh)].rows) :
                                doc[Least(mh)].rows[r].body}))
            ELSE IF gh # {} THEN Took(Least(gh), 1)
            ELSE ~output.res.ok

----------------------------------------------------------------------------
(* FetchRateFromECB called on its own: the maturity, the answer of the API *)
(* and the instant are drawn from bounded sets, one call is made, and the   *)
(* order in which it ranged over the observation map is kept with the      *)
(* result.                                                                 *)

\* most observations of a series
MaxObservations == 3

\* most period labels of a dimension
MaxLabels == 2

\* observation keys: period-like ones, index-like ones, and the empty key
ObservationKeys ==
    {<<"2", "0", "2", "5", "-", "0", "9">>,
     <<"2", "0", "2", "5", "-", "1", "0">>,
     <<"2", "0", "2", "5", "-", "1", "1">>,
     <<"9">>,
     <<"1", "0">>,
     << >>}

\* the rate filed under a key, one per key
rateUnder(key) ==
    Decimal(2000 + 100 * Len(key)
                 + (IF key = << >> THEN 0 ELSE DigitVal(key[Len(key)])), 3)

\* observation maps: every key carries the list of its rate and a second
\* number, but for at most one key, which carries the empty list
ObservationMaps ==
    UNION {{[k \in keys |-> IF k = hole THEN << >>
                            ELSE <<rateUnder(k), Decimal(1, 0)>>] :
               hole \in keys \cup {<<"-">>}} :
           keys \in {ks \in SUBSET ObservationKeys :
                        Cardinality(ks) <= MaxObservations}}

\* observation maps keyed by time-period index, as the API keys them
IndexedMaps ==
    {[k \in keys |-> <<rateUnder(k)>>] :
        keys \in (SUBSET {<<"0">>, <<"1">>}) \ {{}}}

\* period labels: months, December, February in a leap year and another,
\* and texts time.Parse("2006-01", ...) rejects
PeriodLabels ==
    {<<"2", "0", "2", "5", "-", "1", "1">>,
     <<"2", "0", "2", "5", "-", "1", "2">>,
     <<"2", "0", "2", "4", "-", "0", "2">>,
     <<"2", "0", "2", "5", "-", "0", "2">>,
     <<"2", "0", "2", "5", "-", "1", "3">>,
     <<"2", "0", "2", "5", "-", "1">>,
     <<"2", "0", "2", "5", "-", "1", "1", "-", "3", "0">>,
     <<"n", "/", "a">>,
     << >>}

\* the labels of a dimension: none, or any label behind earlier ones
LabelLists ==
    {<< >>}
    \cup {earlier \o <<l>> :
            earlier \in SeqsUpTo({<<"2", "0", "2", "5", "-", "1", "0">>,
                                  <<"n", "/", "a">>}, MaxLabels - 1),
            l \in PeriodLabels}

\* Structure.Dimensions.Observation: no dimension, or the period dimension
\* (with a second dimension behind it or not)
DimensionLists ==
    {<< >>}
    \cup {<<[Values |-> ls]>> : ls \in LabelLists}
    \cup {<<[Values |-> <<l>>], [Values |-> <<<<"2", "0", "2", "5", "-", "0", "1">>>>]>> : l \in PeriodLabels}

ecbBody(datasets, dims) ==
    [err |-> "none", latency |-> 1, DataSets |-> datasets, Observation |-> dims]

\* the answers: errors of the transport, the status and the body; bodies
\* without dataset or without the series; bodies with a series
EcbAnswers ==
    {[err |-> e, latency |-> 1, DataSets |-> << >>, Observation |-> << >>] :
        e \in {"transport", "status", "read", "json"}}
    \cup {ecbBody(<< >>, d) : d \in {<< >>, <<[Values |-> <<<<"2", "0", "2", "5", "-", "1", "1">>>>]>>}}
    \cup {ecbBody(<<[Series |-> [k \in ks |->
                        [Observations |-> [o \in {<<"9">>} |-> <<Decimal(1, 0)>>]]]]>>,
                  << >>) : ks \in {{}, {"0:0:0:0:0:0:1"}}}
    \cup {ecbBody(<<[Series |-> [k \in {seriesKey} |-> [Observations |-> obs]]]>>, d) :
            obs \in ObservationMaps \cup IndexedMaps, d \in DimensionLists}

EcbInputs ==
    {[kind |-> "ecb", maturity |-> m, resp |-> a, at |-> StartTime + k] :
        m \in {"1W", "12M"}, a \in EcbAnswers, k \in 0..1}

InitECB ==
    /\ InitExporter
    /\ input \in EcbInputs
    /\ output = NotRun

CallFetchRateFromECB ==
    /\ input.kind = "ecb"
    /\ ~output.run
    /\ \E order \in KeyOrders(input.resp) :
          output' = [run |-> TRUE, order |-> order,
                     res |-> FetchRateFromECB(input.maturity, input.resp,
                                              order, input.at)]
    /\ UNCHANGED <<ecbMetrics, dailyMetrics, ecbEnabled, runPc, todo, cur,
                   tickPending, ticks, stopCh, mainPc, now, upstream, attempts,
                   received, lastSuccess, input>>

SpecECB == InitECB /\ [][CallFetchRateFromECB]_vars

----------------------------------------------------------------------------
(* Properties of FetchRateFromECB                                          *)

\* lexicographic order of strings, by the bytes of their characters
LexLess(a, b) ==
    \E i \in 1..(Len(b)) :
        /\ \A j \in 1..(i - 1) : j <= Len(a) /\ a[j] = b[j]
        /\ \/ i = Len(a) + 1
           \/ i <= Len(a) /\ byteOf(a[i]) < byteOf(b[i])

Greatest(keys) == CHOOSE g \in keys : \A k \in keys : k = g \/ LexLess(k, g)

\* the call got as far as a series with observations
HasObservations ==
    /\ input.kind = "ecb"
    /\ input.maturity \in DOMAIN maturities
    /\ input.resp.err = "none"
    /\ Len(input.resp.DataSets) > 0
    /\ seriesKey \in DOMAIN input.resp.DataSets[1].Series
    /\ DOMAIN input.resp.DataSets[1].Series[seriesKey].Observations # {}

observationsOf(resp) == resp.DataSets[1].Series[seriesKey].Observations

PeriodKeys ==
    {<<"2", "0", "2", "5", "-", "0", "9">>,
     <<"2", "0", "2", "5", "-", "1", "0">>,
     <<"2", "0", "2", "5", "-", "1", "1">>}

\* C14: whatever the order in which the observation map is ranged over,
\* the rate returned is the first value of the entry whose key is the
\* greatest in lexicographic order; of the keys 2025-09, 2025-10 and
\* 2025-11 that is 2025-11.
C14_LatestIsLexMax ==
    (HasObservations /\ output.run) =>
        LET obs == observationsOf(input.resp)
            g   == Greatest(DOMAIN obs)
        IN  /\ obs[g] # << >> =>
                   /\ output.res.ok
                   /\ output.res.Rate = obs[g][1]
            /\ DOMAIN obs = PeriodKeys =>
                   g = <<"2", "0", "2", "5", "-", "1", "1">>

\* the three period keys were ranged over with 2025-11 first and 2025-09
\* last, and the rate under 2025-11 was returned
C14_Witness ==
    /\ HasObservations
    /\ output.run
    /\ DOMAIN observationsOf(input.resp) = PeriodKeys
    /\ output.order[1] = <<"2", "0", "2", "5", "-", "1", "1">>
    /\ output.order[3] = <<"2", "0", "2", "5", "-", "0", "9">>
    /\ output.res.ok
    /\ output.res.Rate = Decimal(2701, 3)

\* a year-month: four digits, a hyphen, two digits that number a month
IsYearMonth(l) ==
    /\ Len(l) = 7
    /\ \A i \in {1, 2, 3, 4, 6, 7} : l[i] \in Digits
    /\ l[5] = "-"
    /\ DigitsValue(SubSeq(l, 6, 7)) \in 1..12

\* the last calendar day of the month the year-month names
LastDayOf(l) ==
    LET year  == DigitsValue(SubSeq(l, 1, 4))
        month == DigitsValue(SubSeq(l, 6, 7))
        leap  == year % 4 = 0 /\ (year % 100 # 0 \/ year % 400 = 0)
    IN  [year |-> year, month |-> month,
         day |-> IF month = 2 THEN (IF leap THEN 29 ELSE 28)
                 ELSE IF month \in {4, 6, 9, 11} THEN 30 ELSE 31]

\* C15: a fetch that finds a rate succeeds whatever the period metadata is;
\* its publication date is midnight UTC of the last calendar day of the
\* month named by the last label of the first observation dimension
\* (December stays in its year, February has 29 days in a leap year), and
\* the wall-clock time of the call when there is no dimension, no label, or
\* the last label is not a year-month.
C15_EcbPublicationDate ==
    (HasObservations /\ output.run) =>
        LET obs   == observationsOf(input.resp)
            g     == Greatest(DOMAIN obs)
            dims  == input.resp.Observation
            named == Len(dims) > 0 /\ Len(dims[1].Values) > 0
            last  == dims[1].Values[Len(dims[1].Values)]
        IN  obs[g] # << >> =>
                /\ output.res.ok
                /\ output.res.Rate = obs[g][1]
                /\ IF named /\ IsYearMonth(last)
                   THEN output.res.PublicationDate = Unix(LastDayOf(last))
                   ELSE output.res.PublicationDate = input.at
                /\ (named /\ last = <<"2", "0", "2", "5", "-", "1", "2">>) =>
                       output.res.PublicationDate = 1767139200
                /\ (named /\ last = <<"2", "0", "2", "4", "-", "0", "2">>) =>
                       output.res.PublicationDate = 1709164800

\* the labels were 2025-10 and then 2025-12, and the publication date is
\* December 31, 2025
C15_Witness ==
    /\ HasObservations
    /\ output.run
    /\ Len(input.resp.Observation) = 1
    /\ input.resp.Observation[1].Values =
           << <<"2", "0", "2", "5", "-", "1", "0">>,
              <<"2", "0", "2", "5", "-", "1", "2">> >>
    /\ output.res.ok
    /\ output.res.PublicationDate = 1767139200

\* the cases in which the adapter is to fail, read off the call's input
EcbFailureCase ==
    LET r == input.resp
    IN  \/ input.maturity \notin {"1M", "3M", "6M", "12M"}
        \/ r.err = "transport"
        \/ r.err = "status"
        \/ r.err \in {"read", "json"}
        \/ r.DataSets = << >>
        \/ seriesKey \notin DOMAIN r.DataSets[1].Series
        \/ DOMAIN observationsOf(r) = {}
        \/ observationsOf(r)[Greatest(DOMAIN observationsOf(r))] = << >>

\* C16: the adapter fails, returning no rate, when the maturity is not in
\* the lookup table, on a transport error, on a status other than OK, on a
\* body that cannot be read or decoded, on an empty dataset list, on a
\* missing series key, on an empty observation map, and on an empty value
\* list under the selected key; in every other case it succeeds.
C16_EcbFailureCases ==
    (input.kind = "ecb" /\ output.run) =>
        /\ output.res.ok <=> ~EcbFailureCase
        /\ ~output.res.ok => output.res = [ok |-> FALSE]
        /\ output.res.ok => DOMAIN output.res = {"ok", "Rate", "PublicationDate"}

\* the value list under the greatest key is empty while another key has
\* values, and the call failed
C16_Witness ==
    /\ HasObservations
    /\ output.run
    /\ observationsOf(input.resp)[Greatest(DOMAIN observationsOf(input.resp))] = << >>
    /\ \E k \in DOMAIN observationsOf(input.resp) : observationsOf(input.resp)[k] # << >>
    /\ ~output.res.ok

----------------------------------------------------------------------------
(* Properties of parseRate: the characters it keeps                        *)

\* the characters of s at the positions in keep, ',' turned into '.'
Residual(s, keep) ==
    LET idx == {i \in 1..Len(s) : keep[i]}
        nth(k) == CHOOSE i \in idx : Cardinality({j \in idx : j < i}) = k - 1
    IN  [k \in 1..Cardinality(idx) |->
            IF s[nth(k)] = "," THEN "." ELSE s[nth(k)]]

\* an optional leading '-', then digits with at most one '.', one digit at
\* least
IsSignedDecimal(n) ==
    LET body == IF n # << >> /\ Head(n) = "-" THEN Tail(n) ELSE n
    IN  /\ \A i \in 1..Len(body) : body[i] \in Digits \cup {"."}
        /\ \E i \in 1..Len(body) : body[i] \in Digits
        /\ Cardinality({i \in 1..Len(body) : body[i] = "."}) <= 1

\* what parseRate is to return when the residual string is n
FromResidual(n) ==
    IF IsSignedDecimal(n)
    THEN output.res.ok /\ SameValue(output.res.val, NumeralValue(n))
    ELSE ~output.res.ok

\* digits, '.', ',' and every '-' are kept
KeepAllMinus(s) == [i \in 1..Len(s) |-> s[i] \in NumeralChars]

\* digits, '.', ',' and a '-' in leading position are kept: leading in the
\* text once '%' and whitespace are stripped, or leading among the kept
\* characters
KeepLeadingMinus(s, among) ==
    [i \in 1..Len(s) |->
        \/ s[i] \in Digits \cup {".", ","}
        \/ /\ s[i] = "-"
           /\ \A j \in 1..(i - 1) : s[j] \notin among]

\* C17 as stated: parseRate discards every character but digits, '.' (or
\* ',') and a leading '-', a '-' elsewhere being discarded too, and fails
\* exactly when what is left is empty or not a signed decimal.
C17_LeadingMinusOnly ==
    (input.kind = "rate" /\ output.run) =>
        \/ FromResidual(Residual(input.text,
               KeepLeadingMinus(input.text,
                   NumeralChars \cup (RateAlphabet \ (WhiteSpace \cup {"%"})))))
        \/ FromResidual(Residual(input.text,
               KeepLeadingMinus(input.text, NumeralChars)))

\* C17, amended: parseRate discards every character but digits, '.' (or
\* ',') and '-', which it keeps in every position, and fails exactly when
\* what is left is empty or not a signed decimal; a '-' behind a kept
\* character therefore fails the call.
C17_EveryMinusKept ==
    (input.kind = "rate" /\ output.run) =>
        FromResidual(Residual(input.text, KeepAllMinus(input.text)))

\* the text 0-5 was rejected
C17_Witness ==
    /\ input.kind = "rate"
    /\ input.text = <<"0", "-", "5">>
    /\ output.run
    /\ ~output.res.ok

----------------------------------------------------------------------------
(* Stopping                                                                *)

\* C18: once stopCh is closed no pass begins: Run, waiting in its select
\* with a tick pending too, returns and does not start an update.
C18_NoPassAfterStop ==
    [][stopCh = "closed" => ~(runPc = "wait" /\ runPc' = "daily")]_vars

----------------------------------------------------------------------------
(* Last known good                                                         *)

publishedRate(m, src) ==
    IF src = "web" THEN euriborDailyRate[m] ELSE euriborRate[m]

successFlag(m, src) ==
    IF src = "web" THEN euriborDailyScrapeSuccess[m] ELSE euriborScrapeSuccess[m]

\* the pair's latest attempt succeeded: the adapter returned a rate for the
\* answer that attempt received
latestSucceeded(m, src) ==
    /\ received[<<m, src>>] # NeverFetched
    /\ IF src = "web"
       THEN webFetched[m, received[<<m, src>>], StartTime].ok
       ELSE \A o \in KeyOrders(received[<<m, src>>]) :
                ecbFetched[m, received[<<m, src>>], StartTime][o].ok

\* C19: between attempts, a pair's published rate is absent when none of
\* its attempts has succeeded, and otherwise is the rate its latest
\* successful attempt returned; its success flag is 1 exactly when its
\* latest attempt succeeded.
C19_LastKnownGood ==
    \A m \in maturityURLs, src \in Sources :
        /\ publishedRate(m, src) =
               IF lastSuccess[<<m, src>>].ok
               THEN Val(lastSuccess[<<m, src>>].Rate)
               ELSE Absent
        /\ successFlag(m, src) = Val(1) <=> latestSucceeded(m, src)
        /\ received[<<m, src>>] = NeverFetched => ~lastSuccess[<<m, src>>].ok

\* the ECB API answered 2.071 for 3M and failed in the next pass: 2.071
\* stays published with the flag at 0; 1W, which the ECB is never asked
\* about, has a web rate only
C19_Witness ==
    /\ lastSuccess[<<"3M", "ecb">>].ok
    /\ received[<<"3M", "ecb">>] = EcbDown
    /\ euriborRate["3M"] = Val(Decimal(2071, 3))
    /\ euriborScrapeSuccess["3M"] = Val(0)
    /\ euriborRate["1W"] = Absent
    /\ euriborDailyRate["1W"] = Val(Decimal(26, 1))

\* every character is kept but '%' and whitespace
KeepAllButPercentAndSpace(s) ==
    [i \in 1..Len(s) |-> s[i] \notin WhiteSpace \cup {"%"}]

\* C20: when parseRate succeeds, its input without '%' and whitespace and
\* with '.' for ',' is a signed decimal, and the result is its value; a
\* text whose digits are separated by other characters is rejected.
C20_NothingFabricated ==
    (input.kind = "rate" /\ output.run /\ output.res.ok) =>
        LET n == Residual(input.text, KeepAllButPercentAndSpace(input.text))
        IN  /\ IsSignedDecimal(n)
            /\ SameValue(output.res.val, NumeralValue(n))

\* C21: the rate and the publication date are of the same period: when the
\* selected observation key is a time-period index with a label at that
\* index, and the date comes from the label list, it is the date of the
\* label at that index.
C21_RateAndDateSamePeriod ==
    (HasObservations /\ output.run /\ output.res.ok) =>
        LET obs    == observationsOf(input.resp)
            g      == Greatest(DOMAIN obs)
            dims   == input.resp.Observation
            labels == dims[1].Values
            index  == DigitsValue(g)
        IN  (/\ g # << >>
             /\ AllDigits(g)
             /\ Len(dims) > 0
             /\ index + 1 <= Len(labels)
             /\ IsYearMonth(labels[index + 1])
             /\ output.res.PublicationDate # input.at)
            => output.res.PublicationDate = Unix(LastDayOf(labels[index + 1]))

====
